---- MODULE Spec2Model ----
(***************************************************************************)
(* A model of server_dot: a UDP position-synchronisation server.           *)
(*                                                                         *)
(*   - the wire codec (src/src/packet), byte by byte;                      *)
(*   - the player registry (src/src/game_state);                           *)
(*   - the three tasks of GameServer::run (src/src/server/mod.rs,          *)
(*     src/src/tasks/mod.rs): the receive loop, the HeartbeatManager and   *)
(*     the cleanup task, sharing the registry behind one tokio Mutex.      *)
(*                                                                         *)
(* Representation.  A byte is a number in 0..255 and a datagram a sequence *)
(* of bytes.  An f32 is its 32-bit pattern and a u32 its value; both are   *)
(* kept below 2^31 (TLC's integers).  A player id (an 18-character nanoid  *)
(* String) is a number k >= 1 whose bytes are as_bytes(k).  An address (a  *)
(* SocketAddr, and the registry key made of it by to_string) is a number   *)
(* in Addrs.  Instants are whole seconds.                                  *)
(***************************************************************************)
EXTENDS Integers, Sequences, FiniteSets, TLC

(***************************************************************************)
(* Bounds of the model.                                                    *)
(***************************************************************************)
NumAddrs == 3
MaxIds == 3
MaxTime == 15
MaxFails == 1
ClockStep == 5
MaxDatagramLen == 27

(***************************************************************************)
(* Program constants.                                                      *)
(***************************************************************************)
PLAYER_TIMEOUT_SECS == 10
ID_LEN == 18
HEADER_LEN == 24
\* 600.0f32 and 700.0f32, the spawn position of handle_connection_init
SpawnX == 1142292480
SpawnY == 1143930880
\* 100.0f32 and 200.0f32, the position of test_position_update_broadcast
TestX == 1120403456
TestY == 1128792064

Addrs == 1..NumAddrs
Ids == 1..MaxIds
Byte == 0..255

(***************************************************************************)
(* Option and panic results.                                               *)
(***************************************************************************)
None == [tag |-> "None"]
Some(v) == [tag |-> "Some", val |-> v]
Panic == [tag |-> "Panic"]

(***************************************************************************)
(* Bytes.                                                                  *)
(***************************************************************************)
\* u32::to_be_bytes / f32::to_be_bytes / BufMut::put_u32
to_be_bytes(v) ==
  << (v \div 16777216) % 256, (v \div 65536) % 256, (v \div 256) % 256, v % 256 >>

\* u32::from_be_bytes / f32::from_be_bytes of the array [a, b, c, d]
from_be_bytes(a, b, c, d) == a * 16777216 + b * 65536 + c * 256 + d

\* data[from..] and data[from..to] with Rust's 0-based, end-exclusive indices
SliceFrom(data, from) == SubSeq(data, from + 1, Len(data))
Slice(data, from, to) == SubSeq(data, from + 1, to)

\* String::as_bytes of player id k: seventeen 'A' and one more letter
as_bytes(k) == [i \in 1..ID_LEN |-> IF i = ID_LEN THEN 64 + k ELSE 65]

\* vec![0; 18], the client id of a client that has none yet
EmptyId == [i \in 1..ID_LEN |-> 0]
\* eighteen 0xFF bytes: no UTF-8 string holds the byte 0xFF
BadId == [i \in 1..ID_LEN |-> 255]

\* String::from_utf8(v).is_ok().  Bytes below 0x80 are one-byte characters;
\* the only other byte the model's inputs hold is 0xFF, which is never valid.
Utf8Valid(v) == \A i \in 1..Len(v) : v[i] < 128

(***************************************************************************)
(* MessageType (packet/mod.rs).                                            *)
(***************************************************************************)
MessageTypes ==
  { "PositionUpdate", "ChatMessage", "Heartbeat", "ConnectionInit",
    "PlayerJoin", "ConfirmPlayerMovement", "PlayerLeft" }

\* `msg_type as u8`: the enum's discriminants
Code(t) ==
  CASE t = "PositionUpdate" -> 1
    [] t = "ChatMessage" -> 2
    [] t = "Heartbeat" -> 3
    [] t = "ConnectionInit" -> 4
    [] t = "PlayerJoin" -> 5
    [] t = "ConfirmPlayerMovement" -> 6
    [] t = "PlayerLeft" -> 7

\* a faulty from_byte: the codes of ChatMessage and Heartbeat exchanged
from_byte_swapped(b) ==
  CASE b = 1 -> Some("PositionUpdate")
    [] b = 2 -> Some("Heartbeat")
    [] b = 3 -> Some("ChatMessage")
    [] b = 4 -> Some("ConnectionInit")
    [] b = 5 -> Some("PlayerJoin")
    [] b = 6 -> Some("ConfirmPlayerMovement")
    [] b = 7 -> Some("PlayerLeft")
    [] OTHER -> None

from_byte(b) ==
  CASE b = 1 -> Some("PositionUpdate")
    [] b = 2 -> Some("ChatMessage")
    [] b = 3 -> Some("Heartbeat")
    [] b = 4 -> Some("ConnectionInit")
    [] b = 5 -> Some("PlayerJoin")
    [] b = 6 -> Some("ConfirmPlayerMovement")
    [] b = 7 -> Some("PlayerLeft")
    [] OTHER -> None

(***************************************************************************)
(* GamePacket (packet/mod.rs).                                             *)
(***************************************************************************)
GamePacket_new(msg_type, seq_num, payload, client_id) ==
  [ msg_type |-> msg_type, version |-> 1, seq_num |-> seq_num,
    payload |-> payload, client_id |-> client_id ]

\* a faulty serialize: the sequence number before the client id
GamePacket_serialize_seq_first(p) ==
  << Code(p.msg_type), p.version >> \o to_be_bytes(p.seq_num)
    \o p.client_id \o p.payload

GamePacket_serialize(p) ==
  << Code(p.msg_type), p.version >> \o p.client_id
    \o to_be_bytes(p.seq_num) \o p.payload

\* The length test is `< 6`; data[2..20], data[20..=23] and data[24..] then
\* panic (slice or index out of range) on a datagram shorter than 24 bytes.
GamePacket_deserialize(data) ==
  IF Len(data) < 6 THEN None
  ELSE IF from_byte(data[1]).tag = "None" THEN None
  ELSE IF Len(data) < 20 THEN Panic
  ELSE IF Len(data) < HEADER_LEN THEN Panic
  ELSE Some([ msg_type |-> from_byte(data[1]).val,
              seq_num |-> from_be_bytes(data[21], data[22], data[23], data[24]),
              client_id |-> Slice(data, 2, 20),
              payload |-> SliceFrom(data, 24),
              version |-> data[2] ])

(***************************************************************************)
(* Position (game_state/mod.rs).                                           *)
(***************************************************************************)
Position_serialize(p) == to_be_bytes(p.x) \o to_be_bytes(p.y)

\* decodes each coordinate from the four bytes in reversed order
Position_deserialize(data) ==
  IF Len(data) < 8 THEN None
  ELSE Some([ x |-> from_be_bytes(data[4], data[3], data[2], data[1]),
              y |-> from_be_bytes(data[8], data[7], data[6], data[5]) ])

(***************************************************************************)
(* PositionGamePacket, PlayerPosition (packet/mod.rs, packet/position.rs). *)
(***************************************************************************)
\* a PositionGamePacket::new that reads the payload bytes in wire order
PositionGamePacket_new_straight(game_packet) ==
  IF Len(game_packet.payload) < 8 THEN Panic
  ELSE Some([ msg_type |-> game_packet.msg_type,
              version |-> game_packet.version,
              client_id |-> game_packet.client_id,
              seq_num |-> game_packet.seq_num,
              position |->
                [ x |-> from_be_bytes(game_packet.payload[1], game_packet.payload[2],
                                      game_packet.payload[3], game_packet.payload[4]),
                  y |-> from_be_bytes(game_packet.payload[5], game_packet.payload[6],
                                      game_packet.payload[7], game_packet.payload[8]) ] ])

\* payload[3], payload[2], ... payload[7]: indexing a payload shorter than
\* 8 bytes panics
PositionGamePacket_new(game_packet) ==
  IF Len(game_packet.payload) < 8 THEN Panic
  ELSE Some([ msg_type |-> game_packet.msg_type,
              version |-> game_packet.version,
              client_id |-> game_packet.client_id,
              seq_num |-> game_packet.seq_num,
              position |->
                [ x |-> from_be_bytes(game_packet.payload[4], game_packet.payload[3],
                                      game_packet.payload[2], game_packet.payload[1]),
                  y |-> from_be_bytes(game_packet.payload[8], game_packet.payload[7],
                                      game_packet.payload[6], game_packet.payload[5]) ] ])

PlayerPosition_new(id, position) == [id |-> id, position |-> position]

PlayerPosition_serialize(pp) == pp.id \o Position_serialize(pp.position)

PlayerPosition_deserialize(data) ==
  IF Len(data) < 26 THEN None
  ELSE IF Position_deserialize(SliceFrom(data, 18)).tag = "None" THEN None
  ELSE Some([ id |-> Slice(data, 0, 18),
              position |-> Position_deserialize(SliceFrom(data, 18)).val ])

(***************************************************************************)
(* ConnectionInitPacketSent, ConnectionInitSync (packet/connection_init.rs)*)
(* and PlayerLeft (packet/ping.rs).                                        *)
(***************************************************************************)
RECURSIVE RosterBytes(_)
\* the loop of ConnectionInitPacketSent::serialize over self.players
RosterBytes(ps) ==
  IF ps = << >> THEN << >>
  ELSE as_bytes(Head(ps).id) \o Position_serialize(Head(ps).position)
         \o RosterBytes(Tail(ps))

ConnectionInitPacketSent_new(seq_num, client_id, ps) ==
  [ msg_type |-> "ConnectionInit", version |-> 1, seq_num |-> seq_num,
    client_id |-> client_id, players |-> ps ]

ConnectionInitPacketSent_serialize(s) ==
  GamePacket_new(s.msg_type, s.seq_num, RosterBytes(s.players), s.client_id)

ConnectionInitSync_new(client_id, position) ==
  [client_id |-> client_id, position |-> position]

ConnectionInitSync_serialize(s) == s.client_id \o Position_serialize(s.position)

PlayerLeft_new(player_id) == [player_id |-> player_id]

PlayerLeft_serialize(pl) == as_bytes(pl.player_id)

(***************************************************************************)
(* The state.                                                              *)
(***************************************************************************)
VARIABLES
  players,    \* GameState.players: registry key (address) -> Player
  now,        \* the clock read by Instant::now()
  nextId,     \* the next id nanoid!(18) returns (ids are never repeated)
  lock,       \* the holder of Mutex<GameState>, or "free"
  out,        \* the send_to calls made under the current hold of the lock
  rpc,        \* receive task: its position
  rdata,      \* receive task: buf[..len] of the datagram in hand
  raddr,      \* receive task: addr of the datagram in hand
  rtodo,      \* receive task: registry keys its loop has still to visit
  rnew,       \* receive task: player_id of handle_connection_init
  cpc,        \* cleanup task: its position
  cnow,       \* cleanup task: `now` of cleanup_inactive_players
  cexpired,   \* cleanup task: inactive_players as collected
  cinactive,  \* cleanup task: the part of inactive_players not yet iterated
  ccur,       \* cleanup task: (addr, player) of the outer loop
  ctodo,      \* cleanup task: registry keys the inner loop has still to visit
  hpc,        \* heartbeat manager: its position
  htodo,      \* heartbeat manager: registry keys its loop has still to visit
  leftSent,   \* history: PlayerLeft packets sent, per (address, id)
  fails,      \* history: the PlayerLeft sends that returned Err
  lastHb,     \* history: address -> when its last Heartbeat was handled
  reaped,     \* history: the cleanup task has removed an entry
  rejoined,   \* history: a ConnectionInit came from a registered address
  ignored,    \* history: the last datagram received fell to the `_` arm
  known,      \* history: address -> the ids the server told it of and has
              \* not told it to have left
  kpc,        \* codec harness: its position
  kdata,      \* codec harness: the bytes to decode
  kres        \* codec harness: the result of decoding

serverVars ==
  << players, now, nextId, lock, out, rpc, rdata, raddr, rtodo, rnew,
     cpc, cnow, cexpired, cinactive, ccur, ctodo, hpc, htodo,
     leftSent, fails, lastHb, reaped, rejoined, ignored, known >>
codecVars == << kpc, kdata, kres >>
vars == << serverVars, codecVars >>

recvVars == << rpc, rdata, raddr, rtodo, rnew >>
cleanupVars == << cpc, cnow, cexpired, cinactive, ccur, ctodo >>
hbmVars == << hpc, htodo >>
histVars == << leftSent, fails, lastHb, reaped, rejoined, ignored, known >>

NoAddr == 0
NoCur == [addr |-> NoAddr]
Empty == [a \in {} |-> NoAddr]

\* a faulty Mutex: lock() returns to a task while another holds the guard
MutexFree_always(holder) == TRUE

\* game_state.lock().await returns to a task when no task holds the guard
MutexFree(holder) == holder = "free"

(***************************************************************************)
(* GameState (game_state/mod.rs).                                          *)
(***************************************************************************)
\* a faulty add_player: an entry at the key is kept
add_player_keep_old(ps, player, address) ==
  IF address \in DOMAIN ps THEN ps
  ELSE [a \in DOMAIN ps \cup {address} |-> IF a = address THEN player ELSE ps[a]]

\* HashMap::insert: inserts, or overwrites the entry at the key
add_player(ps, player, address) ==
  [a \in DOMAIN ps \cup {address} |-> IF a = address THEN player ELSE ps[a]]

\* a faulty update_player_position: an address without an entry gets one
update_player_position_upsert(ps, address, new_position) ==
  [a \in DOMAIN ps \cup {address} |->
     IF a \in DOMAIN ps
     THEN IF a = address THEN [ps[a] EXCEPT !.position = new_position] ELSE ps[a]
     ELSE [id |-> 0, position |-> new_position, heartbeat |-> now, seq_num |-> 0]]

\* a faulty update_player_position: it also sets the heartbeat
update_player_position_touch(ps, address, new_position) ==
  IF address \in DOMAIN ps
  THEN [ps EXCEPT ![address].position = new_position, ![address].heartbeat = now]
  ELSE ps

update_player_position(ps, address, new_position) ==
  IF address \in DOMAIN ps
  THEN [ps EXCEPT ![address].position = new_position]
  ELSE ps

\* a faulty test of inactivity: >= for >
IsInactive_ge(t, player) == t - player.heartbeat >= PLAYER_TIMEOUT_SECS

\* now.duration_since(player.heartbeat) > Duration::from_secs(PLAYER_TIMEOUT_SECS)
IsInactive(t, player) == t - player.heartbeat > PLAYER_TIMEOUT_SECS

\* the filter-and-clone that collects inactive_players
InactivePlayers(ps, t) ==
  [a \in {b \in DOMAIN ps : IsInactive(t, ps[b])} |-> ps[a]]

\* a faulty retain: the comparison is the other way round
Retain_reversed(ps, t) ==
  [a \in {b \in DOMAIN ps : t - ps[b].heartbeat > PLAYER_TIMEOUT_SECS} |-> ps[a]]

\* a faulty retain: it reads the clock again
Retain_now(ps, t) == [a \in {b \in DOMAIN ps : ~IsInactive(now, ps[b])} |-> ps[a]]

\* self.players.retain(|_, player| now.duration_since(..) <= timeout)
Retain(ps, t) ==
  [a \in {b \in DOMAIN ps : t - ps[b].heartbeat <= PLAYER_TIMEOUT_SECS} |-> ps[a]]

Without(f, a) == [b \in DOMAIN f \ {a} |-> f[b]]

RegisteredIds(ps) == {ps[a].id : a \in DOMAIN ps}

(***************************************************************************)
(* What clients send.                                                      *)
(***************************************************************************)
\* the sequence number the tests' clients use
SeqIn == 1
TestPosition == [x |-> TestX, y |-> TestY]
\* a position none of whose bytes repeats
BytesPosition == [x |-> from_be_bytes(1, 2, 3, 4), y |-> from_be_bytes(5, 6, 7, 8)]
Positions == {TestPosition, BytesPosition}
ClaimedIds == {as_bytes(k) : k \in Ids} \cup {BadId}
HeartbeatDatagram == GamePacket_serialize(GamePacket_new("Heartbeat", SeqIn, << >>, EmptyId))
Datagrams ==
  { GamePacket_serialize(GamePacket_new("PositionUpdate", SeqIn,
                                        Position_serialize(p), cid)) :
      p \in Positions, cid \in ClaimedIds }
  \cup { GamePacket_serialize(GamePacket_new("PositionUpdate", SeqIn, <<1, 2, 3, 4>>,
                                             as_bytes(1))) }
  \cup { GamePacket_serialize(GamePacket_new(t, SeqIn, << >>, EmptyId)) :
           t \in MessageTypes \ {"PositionUpdate"} }
  \cup { [HeartbeatDatagram EXCEPT ![1] = b] : b \in {0, 8} }
  \cup { SubSeq(HeartbeatDatagram, 1, n) : n \in {0, 5, 10, 22} }

\* the datagrams of clients that only join and send heartbeats, and the
\* datagrams the loop drops
DatagramsNoPosition ==
  {d \in Datagrams : /\ GamePacket_deserialize(d).tag # "Panic"
                     /\ Len(d) = 0 \/ d[1] # Code("PositionUpdate")}

IsConnectionInit(d) == Len(d) >= HEADER_LEN /\ d[1] = Code("ConnectionInit")

(***************************************************************************)
(* Sending.  send_to returns Ok or Err.                                    *)
(***************************************************************************)
Outcomes == {TRUE, FALSE}

Sent(to, packet, ok) ==
  out' = Append(out, [to |-> to, data |-> GamePacket_serialize(packet), ok |-> ok])

\* a count of 2 stands for two or more
CountLeft(ls, to, id) == [ls EXCEPT ![<<to, id>>] = IF @ < 2 THEN @ + 1 ELSE @]

\* the history keeps the PlayerLeft counts of the registered ids only
Prune(ls, ps) ==
  [k \in DOMAIN ls |-> IF k[2] \in RegisteredIds(ps) THEN ls[k] ELSE 0]

(***************************************************************************)
(* Init: the state GameServer::new builds, the three tasks just spawned.   *)
(***************************************************************************)
ServerInit ==
  /\ players = Empty
  /\ now = 0
  /\ nextId = 1
  /\ lock = "free"
  /\ out = << >>
  /\ rpc = "recv" /\ rdata = << >> /\ raddr = NoAddr /\ rtodo = {} /\ rnew = 0
  /\ cpc = "sleep" /\ cnow = 0 /\ cexpired = Empty /\ cinactive = Empty
  /\ ccur = NoCur /\ ctodo = {}
  /\ hpc = "sleep" /\ htodo = {}
  /\ leftSent = [k \in Addrs \X Ids |-> 0]
  /\ fails = 0
  /\ lastHb = Empty
  /\ reaped = FALSE
  /\ rejoined = FALSE
  /\ ignored = FALSE
  /\ known = [a \in Addrs |-> {}]

CodecIdle == kpc = "off" /\ kdata = << >> /\ kres = None

Init == ServerInit /\ CodecIdle

(***************************************************************************)
(* The clock.                                                              *)
(***************************************************************************)
AdvanceTime ==
  /\ now + ClockStep <= MaxTime
  /\ now' = now + ClockStep
  /\ UNCHANGED << players, nextId, lock, out, recvVars, cleanupVars,
                  hbmVars, histVars, codecVars >>

(***************************************************************************)
(* The receive task (GameServer::spawn_handle_receiving_messages_task).    *)
(***************************************************************************)
RecvIdle == rpc' = "recv" /\ rdata' = << >> /\ raddr' = NoAddr

\* A panic unwinds the task: tokio drops it, the loop never runs again.
RecvDead == rpc' = "dead" /\ rdata' = << >> /\ raddr' = NoAddr

\* the handler of package.msg_type is entered and reaches its lock().await
RecvEnter(pc, a, d) == rpc' = pc /\ rdata' = d /\ raddr' = a

\* a faulty match: Heartbeat is its only arm
Handled_heartbeat_only(t) == t = "Heartbeat"

\* the arms of the match on package.msg_type that call a handler
Handled(t) == t \in {"PositionUpdate", "Heartbeat", "ConnectionInit"}

\* One turn of the loop up to the handler's lock().await: recv_from gives
\* datagram d from address a, GamePacket::deserialize, the match on
\* msg_type; handle_position_update builds its PositionGamePacket before it
\* locks.  A datagram that is dropped leaves the state as it was.
ReceiveStep(a, d) ==
  /\ rpc = "recv"
  /\ IsConnectionInit(d) => nextId <= MaxIds
  /\ LET package == GamePacket_deserialize(d) IN
       CASE package.tag = "Panic" -> RecvDead
         [] package.tag = "None" -> RecvIdle
         [] OTHER ->
              IF ~Handled(package.val.msg_type) THEN RecvIdle
              ELSE CASE package.val.msg_type = "PositionUpdate" ->
                          IF PositionGamePacket_new(package.val).tag = "Panic"
                          THEN RecvDead
                          ELSE RecvEnter("pos_lock", a, d)
                     [] package.val.msg_type = "Heartbeat" ->
                          RecvEnter("hb_lock", a, d)
                     [] package.val.msg_type = "ConnectionInit" ->
                          RecvEnter("init_lock", a, d)
  /\ UNCHANGED << players, now, nextId, lock, out, rtodo, rnew,
                  cleanupVars, hbmVars, leftSent, fails, lastHb, reaped,
                  rejoined, known, codecVars >>

Receive(a, d) == ReceiveStep(a, d) /\ UNCHANGED ignored

\* the datagram decodes and its msg_type has no handler: the `_` arm logs it
Ignored(d) ==
  /\ GamePacket_deserialize(d).tag = "Some"
  /\ ~Handled(GamePacket_deserialize(d).val.msg_type)

\* the same step, with the history of the `_` arm kept
ReceiveLogged(a, d) == ReceiveStep(a, d) /\ ignored' = Ignored(d)

Package == GamePacket_deserialize(rdata).val

\* a faulty handle_heartbeat: the heartbeat is not set
handle_heartbeat_noop(ps, address, t) == ps

\* the body of handle_heartbeat under the lock
handle_heartbeat(ps, address, t) ==
  IF address \in DOMAIN ps
  THEN [ps EXCEPT ![address].heartbeat = t]
  ELSE ps

\* handle_heartbeat: lock, set the heartbeat, unlock; it awaits nothing
\* while it holds the lock
HandleHeartbeatStep ==
  /\ rpc = "hb_lock"
  /\ MutexFree(lock)
  /\ players' = handle_heartbeat(players, raddr, now)
  /\ RecvIdle
  /\ UNCHANGED << now, nextId, lock, out, rtodo, rnew, cleanupVars,
                  hbmVars, leftSent, fails, reaped, rejoined, ignored,
                  known, codecVars >>

HandleHeartbeat == HandleHeartbeatStep /\ UNCHANGED lastHb

\* the same step, with the history of heartbeats kept
HandleHeartbeatLogged ==
  /\ HandleHeartbeatStep
  /\ lastHb' = IF raddr \in DOMAIN players
               THEN [a \in DOMAIN lastHb \cup {raddr} |->
                       IF a = raddr THEN now ELSE lastHb[a]]
               ELSE lastHb

\* faulty loops of handle_position_update: one that leaves out the source
\* address, one that leaves out nothing
PosRecipients_by_addr(ps, client_id, address) == DOMAIN ps \ {address}

PosRecipients_all(ps, client_id, address) == DOMAIN ps

\* the entries the loop of handle_position_update sends to:
\* player.id != String::from_utf8(package.client_id).unwrap()
PosRecipients(ps, client_id, address) ==
  {a \in DOMAIN ps : as_bytes(ps[a].id) # client_id}

\* the packet handle_position_update sends to the entry `player`
PositionPacket(package, player) ==
  GamePacket_new("PositionUpdate", package.seq_num,
                 PlayerPosition_serialize(
                   PlayerPosition_new(package.client_id, package.position)),
                 as_bytes(player.id))

\* handle_position_update from lock().await to the loop's first iteration,
\* where from_utf8(..).unwrap() panics on a client_id that is not UTF-8;
\* the unwinding drops the guard
PosLock ==
  /\ rpc = "pos_lock"
  /\ MutexFree(lock)
  /\ LET package == PositionGamePacket_new(Package).val
         ps == update_player_position(players, raddr, package.position)
     IN /\ players' = ps
        /\ IF DOMAIN ps # {} /\ ~Utf8Valid(package.client_id)
           THEN RecvDead /\ UNCHANGED << lock, rtodo >>
           ELSE /\ lock' = "recv"
                /\ rpc' = "pos_loop"
                /\ rtodo' = PosRecipients(ps, package.client_id, raddr)
                /\ UNCHANGED << rdata, raddr >>
  /\ out' = << >>
  /\ UNCHANGED << now, nextId, rnew, cleanupVars, hbmVars, histVars,
                  codecVars >>

\* a faulty match on the result of send_to: an Err ends the loop
SendLogged_abort(todo, a, ok) == IF ok THEN todo \ {a} ELSE {}

\* the match on the result of send_to in the handlers of the receive task:
\* Ok or Err (logged), the loop goes on to its next entry
SendLogged(todo, a, ok) == todo \ {a}

\* one iteration of the loop that sends: an Err is logged, the loop goes on
PosSend(a, ok) ==
  /\ rpc = "pos_loop"
  /\ a \in rtodo
  /\ Sent(a, PositionPacket(PositionGamePacket_new(Package).val, players[a]), ok)
  /\ rtodo' = SendLogged(rtodo, a, ok)
  /\ UNCHANGED << players, now, nextId, lock, rpc, rdata, raddr, rnew,
                  cleanupVars, hbmVars, histVars, codecVars >>

\* the end of a handler that holds the lock: the guard is dropped
RecvReleaseStep ==
  /\ rpc \in {"pos_loop", "init_loop"}
  /\ rtodo = {}
  /\ lock' = "free"
  /\ out' = << >>
  /\ RecvIdle
  /\ rnew' = 0
  /\ UNCHANGED << players, now, nextId, rtodo, cleanupVars, hbmVars,
                  fails, lastHb, reaped, rejoined, ignored, known, codecVars >>

RecvRelease == RecvReleaseStep /\ UNCHANGED leftSent

\* the same step, with the history of PlayerLeft packets kept
RecvReleaseCounted == RecvReleaseStep /\ leftSent' = Prune(leftSent, players)

Position_spawn == [x |-> SpawnX, y |-> SpawnY]

\* a faulty nanoid: one id for every call
nanoid_constant(n) == 1

\* nanoid::nanoid!(18): an id no earlier call returned
nanoid(n) == n

NewPlayer(id, seq_num, t) ==
  [id |-> id, position |-> Position_spawn, heartbeat |-> t, seq_num |-> seq_num]

\* handle_connection_init from lock().await to add_player
InitLock ==
  /\ rpc = "init_lock"
  /\ MutexFree(lock)
  /\ nextId <= MaxIds
  /\ lock' = "recv"
  /\ rnew' = nanoid(nextId)
  /\ nextId' = nextId + 1
  /\ players' = add_player(players, NewPlayer(nanoid(nextId), Package.seq_num, now), raddr)
  /\ rejoined' = (rejoined \/ raddr \in DOMAIN players)
  /\ rpc' = "init_reply"
  /\ out' = << >>
  /\ UNCHANGED << now, rdata, raddr, rtodo, cleanupVars, hbmVars,
                  leftSent, fails, lastHb, reaped, ignored, known, codecVars >>

\* the sequences that list each element of S once: the orders in which a
\* HashMap may be iterated
Orders(S) ==
  {o \in [1..Cardinality(S) -> S] : \A i, j \in 1..Cardinality(S) : i # j => o[i] # o[j]}

\* a faulty filter: the new player stays in
Roster_with_self(ps, player_id) == DOMAIN ps

\* the keys of the entries the filter of handle_connection_init keeps:
\* player.id != player_id
Roster(ps, player_id) == {a \in DOMAIN ps : ps[a].id # player_id}

ReplyPacket(seq_num, player_id, roster) ==
  ConnectionInitPacketSent_serialize(
    ConnectionInitPacketSent_new(seq_num, as_bytes(player_id), roster))

\* the roster is collected and the reply sent to addr; an Err is logged
InitReplyStep(order, ok) ==
  /\ rpc = "init_reply"
  /\ order \in Orders(Roster(players, rnew))
  /\ Sent(raddr,
          ReplyPacket(Package.seq_num, rnew,
                      [i \in 1..Len(order) |-> players[order[i]]]),
          ok)
  /\ rpc' = "init_loop"
  /\ rtodo' = Roster(players, rnew)
  /\ UNCHANGED << players, now, nextId, lock, rdata, raddr, rnew, cleanupVars,
                  hbmVars, leftSent, fails, lastHb, reaped, rejoined, ignored,
                  codecVars >>

InitReply(order, ok) == InitReplyStep(order, ok) /\ UNCHANGED known

\* the same step, with the history of what each address was told kept: a
\* reply that was sent tells the new player of the ids of its roster
InitReplyTold(order, ok) ==
  /\ InitReplyStep(order, ok)
  /\ known' = [known EXCEPT ![raddr] =
                 IF ok THEN {players[b].id : b \in Roster(players, rnew)} ELSE {}]

\* a JoinPacket whose payload holds the new player's position
JoinPacket_new_position(seq_num, player_id, player) ==
  GamePacket_new("PlayerJoin", seq_num,
                 ConnectionInitSync_serialize(
                   ConnectionInitSync_new(as_bytes(player_id), Position_spawn)),
                 as_bytes(player.id))

\* the PlayerJoin packet for the entry `player` of the loop: the payload is
\* built from player_id and from the position of `player`, the loop's entry
JoinPacket(seq_num, player_id, player) ==
  GamePacket_new("PlayerJoin", seq_num,
                 ConnectionInitSync_serialize(
                   ConnectionInitSync_new(as_bytes(player_id), player.position)),
                 as_bytes(player.id))

\* one sending iteration of the PlayerJoin loop: an Err is logged
InitSendStep(a, ok) ==
  /\ rpc = "init_loop"
  /\ a \in rtodo
  /\ Sent(a, JoinPacket(Package.seq_num, rnew, players[a]), ok)
  /\ rtodo' = SendLogged(rtodo, a, ok)
  /\ UNCHANGED << players, now, nextId, lock, rpc, rdata, raddr, rnew,
                  cleanupVars, hbmVars, leftSent, fails, lastHb, reaped, rejoined,
                  ignored, codecVars >>

InitSend(a, ok) == InitSendStep(a, ok) /\ UNCHANGED known

\* the same step, with the history of what each address was told kept: a
\* PlayerJoin that was sent tells its receiver of the new id
InitSendTold(a, ok) ==
  /\ InitSendStep(a, ok)
  /\ known' = [known EXCEPT ![a] = IF ok THEN @ \cup {rnew} ELSE @]

(***************************************************************************)
(* The cleanup task (tasks::handle_cleanup_task and                        *)
(* GameState::cleanup_inactive_players).                                   *)
(***************************************************************************)
\* interval.tick() fires while another task holds the lock: lock().await waits
CleanupWait ==
  /\ cpc = "sleep"
  /\ lock # "free"
  /\ cpc' = "wait"
  /\ UNCHANGED << players, now, nextId, lock, out, recvVars, cnow,
                  cexpired, cinactive, ccur, ctodo, hbmVars, histVars, codecVars >>

\* lock().await returns; cleanup_inactive_players reads the clock and
\* collects inactive_players
CleanupLock ==
  /\ cpc \in {"sleep", "wait"}
  /\ MutexFree(lock)
  /\ lock' = "cleanup"
  /\ cpc' = "notify"
  /\ cnow' = now
  /\ cexpired' = InactivePlayers(players, now)
  /\ cinactive' = InactivePlayers(players, now)
  /\ ccur' = NoCur
  /\ ctodo' = {}
  /\ out' = << >>
  /\ UNCHANGED << players, now, nextId, recvVars, hbmVars, histVars,
                  codecVars >>

\* a faulty inner loop: the inactive entries are not sent to
LeftTargets_active_only(ps, addr) ==
  {a \in DOMAIN ps : a # addr /\ ~IsInactive(cnow, ps[a])}

\* the entries the inner loop sends to: target_addr != &addr
LeftTargets(ps, addr) == {a \in DOMAIN ps : a # addr}

\* the outer loop takes the next (addr, player) of inactive_players
CleanupNext(e) ==
  /\ cpc = "notify"
  /\ ctodo = {}
  /\ e \in DOMAIN cinactive
  /\ ccur' = [addr |-> e, player |-> cinactive[e]]
  /\ cinactive' = Without(cinactive, e)
  /\ ctodo' = LeftTargets(players, e)
  /\ UNCHANGED << players, now, nextId, lock, out, recvVars, cpc, cnow,
                  cexpired, hbmVars, histVars, codecVars >>

\* a faulty PlayerLeft header: it carries the id of the player that left
LeftPacket_left_id(left, p) ==
  GamePacket_new("PlayerLeft", 0, PlayerLeft_serialize(PlayerLeft_new(left.id)),
                 as_bytes(left.id))

LeftPacket(left, p) ==
  GamePacket_new("PlayerLeft", 0, PlayerLeft_serialize(PlayerLeft_new(left.id)),
                 as_bytes(p.id))

\* one sending iteration of the inner loop; `?` returns the Err of send_to
\* from cleanup_inactive_players, past the retain
CleanupSendStep(t, ok) ==
  /\ cpc = "notify"
  /\ t \in ctodo
  /\ Sent(t, LeftPacket(ccur.player, players[t]), ok)
  /\ IF ok
     THEN ctodo' = ctodo \ {t} /\ cpc' = cpc
     ELSE ctodo' = ctodo /\ cpc' = "failed"
  /\ UNCHANGED << players, now, nextId, lock, recvVars, cnow, cexpired,
                  cinactive, ccur, hbmVars, lastHb, reaped, rejoined, ignored,
                  codecVars >>

CleanupSend(t, ok) ==
  CleanupSendStep(t, ok) /\ UNCHANGED << leftSent, fails, known >>

\* the same step, with the history of what each address was told kept: a
\* PlayerLeft that was sent tells its receiver that the id has left
CleanupSendTold(t, ok) ==
  /\ CleanupSendStep(t, ok)
  /\ known' = [known EXCEPT ![t] = IF ok THEN @ \ {ccur.player.id} ELSE @]
  /\ UNCHANGED << leftSent, fails >>

\* the same step, with the history of PlayerLeft packets kept; the runs
\* with that history have at most MaxFails failing PlayerLeft sends
CleanupSendCounted(t, ok) ==
  /\ ok \/ fails < MaxFails
  /\ CleanupSendStep(t, ok)
  /\ leftSent' = CountLeft(leftSent, t, ccur.player.id)
  /\ fails' = IF ok THEN fails ELSE fails + 1
  /\ UNCHANGED known

\* both loops are over: self.players.retain(..), Ok(())
CleanupRetainStep ==
  /\ cpc = "notify"
  /\ ctodo = {}
  /\ DOMAIN cinactive = {}
  /\ players' = Retain(players, cnow)
  /\ cpc' = "done"
  /\ reaped' = (reaped \/ DOMAIN Retain(players, cnow) # DOMAIN players)
  /\ UNCHANGED << now, nextId, lock, out, recvVars, cnow, cexpired,
                  cinactive, ccur, ctodo, hbmVars, leftSent, fails, rejoined,
                  ignored, codecVars >>

CleanupRetain == CleanupRetainStep /\ UNCHANGED << lastHb, known >>

\* the same step, with the history of what each address was told kept: an
\* address that is removed is no player any more
CleanupRetainTold ==
  /\ CleanupRetainStep
  /\ known' = [a \in Addrs |-> IF a \in DOMAIN players' THEN known[a] ELSE {}]
  /\ UNCHANGED lastHb

\* the same step, with the history of heartbeats kept: an address that is
\* removed has no heartbeat on record any more
CleanupRetainLogged ==
  /\ CleanupRetainStep
  /\ lastHb' = [a \in DOMAIN lastHb \cap DOMAIN players' |-> lastHb[a]]
  /\ UNCHANGED known

\* a faulty end of pass: only Ok counts
PassEnded_done_only == cpc = "done"

\* a pass of the cleanup task has ended, with Ok or with Err
PassEnded == cpc \in {"done", "failed"}

\* the end of the loop body of handle_cleanup_task, after Ok or Err: the
\* guard is dropped
CleanupReleaseStep ==
  /\ PassEnded
  /\ lock' = "free"
  /\ cpc' = "sleep"
  /\ cnow' = 0 /\ cexpired' = Empty /\ cinactive' = Empty
  /\ ccur' = NoCur /\ ctodo' = {}
  /\ out' = << >>
  /\ UNCHANGED << players, now, nextId, recvVars, hbmVars, fails, lastHb,
                  reaped, rejoined, ignored, known, codecVars >>

CleanupRelease == CleanupReleaseStep /\ UNCHANGED leftSent

\* the same step, with the history of PlayerLeft packets kept
CleanupReleaseCounted == CleanupReleaseStep /\ leftSent' = Prune(leftSent, players)

(***************************************************************************)
(* The heartbeat manager (tasks::HeartbeatManager).                        *)
(***************************************************************************)
HbmWait ==
  /\ hpc = "sleep"
  /\ lock # "free"
  /\ hpc' = "wait"
  /\ UNCHANGED << players, now, nextId, lock, out, recvVars,
                  cleanupVars, htodo, histVars, codecVars >>

\* send_heartbeats: lock().await returns, the loop over state.players starts
HbmLock ==
  /\ hpc \in {"sleep", "wait"}
  /\ MutexFree(lock)
  /\ lock' = "heartbeat"
  /\ hpc' = "send"
  /\ htodo' = DOMAIN players
  /\ out' = << >>
  /\ UNCHANGED << players, now, nextId, recvVars, cleanupVars,
                  histVars, codecVars >>

ProbePacket(player) ==
  GamePacket_new("Heartbeat", 0, << >>, as_bytes(player.id))

\* one iteration of the loop; `?` returns the Err of send_to from
\* send_heartbeats.  The registry keys are made by SocketAddr::to_string,
\* so addr.parse() is Ok.
HbmSend(a, ok) ==
  /\ hpc = "send"
  /\ a \in htodo
  /\ Sent(a, ProbePacket(players[a]), ok)
  /\ IF ok
     THEN htodo' = htodo \ {a} /\ hpc' = hpc
     ELSE htodo' = htodo /\ hpc' = "failed"
  /\ UNCHANGED << players, now, nextId, lock, recvVars, cleanupVars,
                  histVars, codecVars >>

\* send_heartbeats returns (Ok or Err): the guard is dropped
HbmRelease ==
  /\ \/ hpc = "send" /\ htodo = {}
     \/ hpc = "failed"
  /\ lock' = "free"
  /\ hpc' = "sleep"
  /\ htodo' = {}
  /\ out' = << >>
  /\ UNCHANGED << players, now, nextId, recvVars, cleanupVars,
                  histVars, codecVars >>

(***************************************************************************)
(* The codec on its own: GamePacket::deserialize and MessageType::from_byte *)
(* applied to byte sequences of every length up to MaxDatagramLen and every *)
(* first byte.                                                              *)
(***************************************************************************)
\* a well-formed datagram to cut the inputs from
CodecTemplate ==
  GamePacket_serialize(GamePacket_new("PositionUpdate", SeqIn,
                                      Position_serialize(TestPosition), as_bytes(1)))

CodecInputs ==
  { [i \in 1..n |-> IF i = 1 THEN b ELSE CodecTemplate[i]] :
      n \in 0..MaxDatagramLen, b \in Byte }

\* well-formed packets: 18-byte client ids, sequence numbers up to 2^31 - 1
CodecPackets ==
  [ msg_type : MessageTypes,
    version : {0, 1, 255},
    seq_num : {0, SeqIn, 2147483647},
    payload : {<< >>, <<1, 2, 3, 4>>, Position_serialize(TestPosition)},
    client_id : {EmptyId, as_bytes(1), BadId} ]

CodecPositions == Positions \cup {Position_spawn, [x |-> 0, y |-> 0]}

\* the harness holds bytes to decode, a packet to encode or a position to
\* encode
CodecInit ==
  /\ ServerInit
  /\ \/ kpc = "ready" /\ kdata \in CodecInputs /\ kres = None
     \/ kpc = "have_packet" /\ kdata = << >> /\ kres \in {Some(p) : p \in CodecPackets}
     \/ kpc = "have_position" /\ kdata = << >>
          /\ kres \in {Some(x) : x \in CodecPositions}

\* GamePacket::deserialize(&kdata)
DecodePacket ==
  /\ kpc = "ready"
  /\ kres' = GamePacket_deserialize(kdata)
  /\ kpc' = "packet"
  /\ UNCHANGED << kdata, serverVars >>

\* MessageType::from_byte(kdata[0])
DecodeType ==
  /\ kpc = "ready"
  /\ Len(kdata) > 0
  /\ kres' = from_byte(kdata[1])
  /\ kpc' = "type"
  /\ UNCHANGED << kdata, serverVars >>

\* kres.val.serialize() of a GamePacket
EncodePacket ==
  /\ kpc = "have_packet"
  /\ kdata' = GamePacket_serialize(kres.val)
  /\ kpc' = "packet_bytes"
  /\ UNCHANGED << kres, serverVars >>

\* GamePacket::deserialize of the bytes EncodePacket made
DecodeEncoded ==
  /\ kpc = "packet_bytes"
  /\ kres' = GamePacket_deserialize(kdata)
  /\ kpc' = "packet_back"
  /\ UNCHANGED << kdata, serverVars >>

\* kres.val.serialize() of a Position
EncodePosition ==
  /\ kpc = "have_position"
  /\ kdata' = Position_serialize(kres.val)
  /\ kpc' = "position_bytes"
  /\ UNCHANGED << kres, serverVars >>

\* Position::deserialize of the bytes EncodePosition made
DecodePosition ==
  /\ kpc = "position_bytes"
  /\ kres' = Position_deserialize(kdata)
  /\ kpc' = "position_back"
  /\ UNCHANGED << kdata, serverVars >>

CodecNext ==
  \/ DecodePacket
  \/ DecodeType
  \/ EncodePacket
  \/ DecodeEncoded
  \/ EncodePosition
  \/ DecodePosition

SpecCodec == CodecInit /\ [][CodecNext]_vars

(***************************************************************************)
(* The server: the three tasks and the clock.  ReceiveTask(D) is the       *)
(* receive task with the inbound datagrams drawn from D.                   *)
(***************************************************************************)
ReceiveTask(D) ==
  \/ \E a \in Addrs, d \in D : Receive(a, d)
  \/ HandleHeartbeat
  \/ PosLock
  \/ \E a \in Addrs, ok \in Outcomes : PosSend(a, ok)
  \/ InitLock
  \/ \E order \in Orders(Roster(players, rnew)), ok \in Outcomes : InitReply(order, ok)
  \/ \E a \in Addrs, ok \in Outcomes : InitSend(a, ok)
  \/ RecvRelease

CleanupTask ==
  \/ CleanupLock
  \/ \E e \in Addrs : CleanupNext(e)
  \/ \E t \in Addrs, ok \in Outcomes : CleanupSend(t, ok)
  \/ CleanupRetain
  \/ CleanupRelease

HeartbeatTask ==
  \/ HbmLock
  \/ \E a \in Addrs, ok \in Outcomes : HbmSend(a, ok)
  \/ HbmRelease

Next ==
  \/ AdvanceTime
  \/ ReceiveTask(Datagrams)
  \/ CleanupTask
  \/ CleanupWait
  \/ HeartbeatTask
  \/ HbmWait

Spec == Init /\ [][Next]_vars

(***************************************************************************)
(* Parts of Spec, each a system of its own.                                *)
(***************************************************************************)
\* the receive task alone: no entry is ever removed
SpecDispatch == Init /\ [][ReceiveTask(Datagrams)]_vars

\* the receive task alone, with the history of the `_` arm kept
DispatchLoggedNext ==
  \/ \E a \in Addrs, d \in Datagrams : ReceiveLogged(a, d)
  \/ HandleHeartbeat
  \/ PosLock
  \/ \E a \in Addrs, ok \in Outcomes : PosSend(a, ok)
  \/ InitLock
  \/ \E order \in Orders(Roster(players, rnew)), ok \in Outcomes : InitReply(order, ok)
  \/ \E a \in Addrs, ok \in Outcomes : InitSend(a, ok)
  \/ RecvRelease

SpecDispatchLogged == Init /\ [][DispatchLoggedNext]_vars

\* the clock and the receive task of clients that only join and send
\* heartbeats
JoinBeat ==
  \/ AdvanceTime
  \/ \E a \in Addrs, d \in DatagramsNoPosition : Receive(a, d)
  \/ InitLock
  \/ \E order \in Orders(Roster(players, rnew)), ok \in Outcomes : InitReply(order, ok)
  \/ \E a \in Addrs, ok \in Outcomes : InitSend(a, ok)

\* these and the cleanup task
ReapNext ==
  \/ JoinBeat
  \/ HandleHeartbeat
  \/ RecvRelease
  \/ CleanupTask

SpecReap == Init /\ [][ReapNext]_vars

\* these and the heartbeat manager
ProbeNext ==
  \/ JoinBeat
  \/ HandleHeartbeat
  \/ RecvRelease
  \/ HeartbeatTask

SpecProbe == Init /\ [][ProbeNext]_vars

\* these, the cleanup task and the heartbeat manager, with the history of
\* heartbeats kept
BeatNext ==
  \/ JoinBeat
  \/ HandleHeartbeatLogged
  \/ RecvRelease
  \/ CleanupLock
  \/ \E e \in Addrs : CleanupNext(e)
  \/ \E t \in Addrs, ok \in Outcomes : CleanupSend(t, ok)
  \/ CleanupRetainLogged
  \/ CleanupRelease
  \/ HeartbeatTask

SpecBeat == Init /\ [][BeatNext]_vars

\* the clock, these clients and the cleanup task, with the history of
\* PlayerLeft packets kept
ReapLeftNext ==
  \/ JoinBeat
  \/ HandleHeartbeat
  \/ RecvReleaseCounted
  \/ CleanupLock
  \/ \E e \in Addrs : CleanupNext(e)
  \/ \E t \in Addrs, ok \in Outcomes : CleanupSendCounted(t, ok)
  \/ CleanupRetain
  \/ CleanupReleaseCounted

SpecReapLeft == Init /\ [][ReapLeftNext]_vars

\* the datagrams of clients that join and send PositionUpdates but never a
\* Heartbeat, and the datagrams the loop drops
DatagramsPlay ==
  (DatagramsNoPosition \ {HeartbeatDatagram})
  \cup { GamePacket_serialize(GamePacket_new("PositionUpdate", SeqIn,
                                             Position_serialize(TestPosition),
                                             as_bytes(1))) }

\* the clock, these clients, the cleanup task and the heartbeat manager
PlayNext ==
  \/ AdvanceTime
  \/ \E a \in Addrs, d \in DatagramsPlay : Receive(a, d)
  \/ PosLock
  \/ \E a \in Addrs, ok \in Outcomes : PosSend(a, ok)
  \/ InitLock
  \/ \E order \in Orders(Roster(players, rnew)), ok \in Outcomes : InitReply(order, ok)
  \/ \E a \in Addrs, ok \in Outcomes : InitSend(a, ok)
  \/ RecvRelease
  \/ CleanupTask
  \/ HeartbeatTask

SpecPlay == Init /\ [][PlayNext]_vars

\* the clients that join, and those of them that go on to send
Clients == 1..(NumAddrs - 1)
Talkers == 1..(NumAddrs - 2)

ConnectionInitDatagram ==
  GamePacket_serialize(GamePacket_new("ConnectionInit", SeqIn, << >>, EmptyId))

\* a PositionUpdate whose client_id is not UTF-8
BadIdPosition ==
  GamePacket_serialize(GamePacket_new("PositionUpdate", SeqIn,
                                      Position_serialize(TestPosition), BadId))

\* the clock, the three tasks and their waits for the guard; the clients
\* join, and some send Heartbeats and PositionUpdates that name no player
FairNext ==
  \/ AdvanceTime
  \/ \E a \in Clients : Receive(a, ConnectionInitDatagram)
  \/ \E a \in Talkers, d \in {HeartbeatDatagram, BadIdPosition} : Receive(a, d)
  \/ HandleHeartbeat
  \/ PosLock
  \/ InitLock
  \/ \E order \in Orders(Roster(players, rnew)), ok \in Outcomes : InitReply(order, ok)
  \/ \E a \in Addrs, ok \in Outcomes : InitSend(a, ok)
  \/ RecvRelease
  \/ CleanupTask
  \/ CleanupWait
  \/ HeartbeatTask
  \/ HbmWait

\* the clock, the receive task with every datagram, the cleanup task and the
\* heartbeat manager, with the clients that join
ServeNext ==
  \/ AdvanceTime
  \/ \E a \in Clients, d \in Datagrams : ReceiveLogged(a, d)
  \/ HandleHeartbeat
  \/ PosLock
  \/ \E a \in Addrs, ok \in Outcomes : PosSend(a, ok)
  \/ InitLock
  \/ \E order \in Orders(Roster(players, rnew)), ok \in Outcomes : InitReply(order, ok)
  \/ \E a \in Addrs, ok \in Outcomes : InitSend(a, ok)
  \/ RecvRelease
  \/ CleanupTask
  \/ HeartbeatTask

SpecServe == Init /\ [][ServeNext]_vars

\* the tokio runtime polls every task that can go on; tokio's Mutex hands the
\* guard to its waiters in the order of their lock() calls, so a task at
\* lock().await is not passed over for ever; the intervals tick for ever
TasksFair ==
  /\ SF_vars(HandleHeartbeat) /\ SF_vars(PosLock) /\ SF_vars(InitLock)
  /\ WF_vars(\E order \in Orders(Roster(players, rnew)), ok \in Outcomes :
               InitReply(order, ok))
  /\ WF_vars(\E a \in Addrs, ok \in Outcomes : InitSend(a, ok))
  /\ WF_vars(RecvRelease)
  /\ SF_vars(CleanupLock)
  /\ WF_vars(\E e \in Addrs : CleanupNext(e))
  /\ WF_vars(\E t \in Addrs, ok \in Outcomes : CleanupSend(t, ok))
  /\ WF_vars(CleanupRetain)
  /\ WF_vars(CleanupRelease)
  /\ SF_vars(HbmLock)
  /\ WF_vars(\E a \in Addrs, ok \in Outcomes : HbmSend(a, ok))
  /\ WF_vars(HbmRelease)

SpecFair == Init /\ [][FairNext]_vars /\ TasksFair

\* the clock, clients that join and send Heartbeats, and the cleanup task in
\* the runs in which every send_to of PlayerLeft returns Ok
ReapOkNext ==
  \/ AdvanceTime
  \/ \E a \in Clients : Receive(a, ConnectionInitDatagram)
  \/ \E a \in Talkers : Receive(a, HeartbeatDatagram)
  \/ HandleHeartbeat
  \/ InitLock
  \/ \E order \in Orders(Roster(players, rnew)), ok \in Outcomes : InitReply(order, ok)
  \/ \E a \in Addrs, ok \in Outcomes : InitSend(a, ok)
  \/ RecvRelease
  \/ CleanupLock
  \/ \E e \in Addrs : CleanupNext(e)
  \/ \E t \in Addrs : CleanupSend(t, TRUE)
  \/ CleanupRetain
  \/ CleanupRelease
  \/ CleanupWait

\* time goes on; the interval of the cleanup task ticks for ever and the
\* Mutex hands it the guard; the runtime polls the task's steps and the
\* steps of a handler that holds the guard
ReaperFair ==
  /\ WF_vars(AdvanceTime)
  /\ SF_vars(CleanupLock)
  /\ WF_vars(\E e \in Addrs : CleanupNext(e))
  /\ WF_vars(\E t \in Addrs : CleanupSend(t, TRUE))
  /\ WF_vars(CleanupRetain)
  /\ WF_vars(CleanupRelease)
  /\ WF_vars(\E order \in Orders(Roster(players, rnew)), ok \in Outcomes :
               InitReply(order, ok))
  /\ WF_vars(\E a \in Addrs, ok \in Outcomes : InitSend(a, ok))
  /\ WF_vars(RecvRelease)

SpecReapFair == Init /\ [][ReapOkNext]_vars /\ ReaperFair

\* the clock, the clients that join, which also send Heartbeats, and the
\* cleanup task, with the history of what each address was told kept
ToldNext ==
  \/ AdvanceTime
  \/ \E a \in Clients, d \in DatagramsNoPosition : Receive(a, d)
  \/ HandleHeartbeat
  \/ InitLock
  \/ \E order \in Orders(Roster(players, rnew)), ok \in Outcomes :
        InitReplyTold(order, ok)
  \/ \E a \in Addrs, ok \in Outcomes : InitSendTold(a, ok)
  \/ RecvRelease
  \/ CleanupLock
  \/ \E e \in Addrs : CleanupNext(e)
  \/ \E t \in Addrs, ok \in Outcomes : CleanupSendTold(t, ok)
  \/ CleanupRetainTold
  \/ CleanupRelease

SpecTold == Init /\ [][ToldNext]_vars

(***************************************************************************)
(* What the packets of the current hold of the lock say.                   *)
(***************************************************************************)
\* the send_to calls of the current hold that went to address a
OutTo(a) == {i \in 1..Len(out) : out[i].to = a}

\* the packet of the i-th send_to call, as its receiver decodes it
OutPacket(i) == GamePacket_deserialize(out[i].data).val

OutOfType(a, t) == {i \in OutTo(a) : OutPacket(i).msg_type = t}

\* the handler of a PositionUpdate has sent to every entry of its loop
PositionHandled == rpc = "pos_loop" /\ rtodo = {}

\* the claimed client_id is the id registered for the source address
ClaimsOwnId == Package.client_id = as_bytes(players[raddr].id)

\* C1 as the specification states it: a PositionUpdate that was handled for
\* a registered source address A has been sent once to every other
\* registered address and not to A
C1_BroadcastBySource ==
  (PositionHandled /\ raddr \in DOMAIN players) =>
     /\ \A b \in DOMAIN players \ {raddr} :
          Cardinality(OutOfType(b, "PositionUpdate")) = 1 /\ Cardinality(OutTo(b)) = 1
     /\ OutTo(raddr) = {}

\* C1, amended: a PositionUpdate whose client_id is the id registered for
\* its source address A has been sent once to every other registered address
\* and not to A
C1_BroadcastOwnId ==
  (PositionHandled /\ raddr \in DOMAIN players /\ ClaimsOwnId) =>
     /\ \A b \in DOMAIN players \ {raddr} :
          Cardinality(OutOfType(b, "PositionUpdate")) = 1 /\ Cardinality(OutTo(b)) = 1
     /\ OutTo(raddr) = {}

C1_Witness ==
  /\ PositionHandled
  /\ raddr \in DOMAIN players
  /\ ClaimsOwnId
  /\ Cardinality(DOMAIN players) = 3
  /\ Len(out) = 2

DistinctIds == \A a, b \in DOMAIN players : a # b => players[a].id # players[b].id

\* C4 as the specification states it: after n ConnectionInit requests were
\* handled (nextId - 1 of them) the registry has n entries with pairwise
\* distinct ids
C4_OneEntryPerRequest ==
  (rpc = "recv" /\ ~reaped) =>
     Cardinality(DOMAIN players) = nextId - 1 /\ DistinctIds

\* C4, amended: after n ConnectionInit requests from n different addresses
\* were handled the registry has n entries with pairwise distinct ids
C4_OneEntryPerAddress ==
  (rpc = "recv" /\ ~reaped /\ ~rejoined) =>
     Cardinality(DOMAIN players) = nextId - 1 /\ DistinctIds

C4_Witness ==
  rpc = "recv" /\ ~reaped /\ ~rejoined /\ nextId - 1 = 3 /\ Cardinality(DOMAIN players) = 3

\* the reply of handle_connection_init has been sent: it is the first packet
\* of the hold
Replied == rpc = "init_loop"

\* the 26-byte records of a roster payload
Records(payload) ==
  {Slice(payload, 26 * (i - 1), 26 * i) : i \in 1..(Len(payload) \div 26)}

RecordOf(player) == as_bytes(player.id) \o Position_serialize(player.position)

\* C5: the reply goes to the joining address with the new id as client_id;
\* its roster has one 26-byte record (id, position) for each registered
\* player but the new one, and nothing else; it is empty for the first client
C5_ReplyRoster ==
  Replied =>
     /\ out[1].to = raddr
     /\ OutPacket(1).msg_type = "ConnectionInit"
     /\ OutPacket(1).client_id = as_bytes(players[raddr].id)
     /\ Len(OutPacket(1).payload) = 26 * (Cardinality(DOMAIN players) - 1)
     /\ Records(OutPacket(1).payload) =
          {RecordOf(players[b]) : b \in DOMAIN players \ {raddr}}
     /\ DOMAIN players = {raddr} => OutPacket(1).payload = << >>

C5_Witness ==
  /\ Replied
  /\ Cardinality(DOMAIN players) = 3
  /\ \E b \in DOMAIN players : players[b].position # Position_spawn

\* the handler of a ConnectionInit has sent to every entry of its loop
JoinHandled == rpc = "init_loop" /\ rtodo = {}

\* C6: when a ConnectionInit was handled, every other registered address has
\* been sent one PlayerJoin, whose payload is the new id followed by the new
\* player's position, and the new player's address has been sent none
C6_JoinAnnounced ==
  JoinHandled =>
     /\ \A b \in DOMAIN players \ {raddr} :
          /\ Cardinality(OutOfType(b, "PlayerJoin")) = 1
          /\ \A i \in OutOfType(b, "PlayerJoin") :
               OutPacket(i).payload = RecordOf(players[raddr])
     /\ OutOfType(raddr, "PlayerJoin") = {}

\* C7: the position a receiver decodes from a forwarded PositionUpdate with
\* PlayerPosition::deserialize is the position p whose Position::serialize
\* the client sent as payload
C7_PositionEndToEnd ==
  rpc = "pos_loop" =>
     \A i \in 1..Len(out), p \in Positions :
        Package.payload = Position_serialize(p) =>
           /\ PlayerPosition_deserialize(OutPacket(i).payload).tag = "Some"
           /\ PlayerPosition_deserialize(OutPacket(i).payload).val.position = p

C7_Witness ==
  /\ rpc = "pos_loop"
  /\ Len(out) = 2
  /\ Package.payload = Position_serialize(BytesPosition)

\* a datagram GamePacket::deserialize makes no packet of
Unparseable(d) == GamePacket_deserialize(d).tag # "Some"

\* C8: the receive loop that is given a datagram it cannot parse goes on to
\* the next datagram and leaves the registry as it was
C8_UnparseableIgnored ==
  [][\A a \in Addrs, d \in Datagrams :
       (Unparseable(d) /\ Receive(a, d)) => (rpc' = "recv" /\ players' = players)]_vars

\* C2: when a pass has ended, no player whose heartbeat was older than the
\* timeout at the pass's `now` is registered, and each registered player has
\* been sent, in the whole run, one PlayerLeft for each player the pass
\* found inactive
C2_RemovedAndAnnouncedOnce ==
  PassEnded =>
     /\ \A a \in DOMAIN players : ~IsInactive(cnow, players[a])
     /\ \A e \in DOMAIN cexpired, b \in DOMAIN players :
          leftSent[<<b, cexpired[e].id>>] = 1

\* C3: the step that removes the inactive entries keeps each entry whose
\* last Heartbeat was handled at most PLAYER_TIMEOUT_SECS before the
\* pass's `now`
C3_HeartbeatKeepsEntry ==
  [][CleanupRetainStep =>
       \A a \in DOMAIN lastHb :
          cnow <= lastHb[a] + PLAYER_TIMEOUT_SECS => a \in DOMAIN players']_vars

C3_Witness ==
  /\ cpc = "done"
  /\ DOMAIN cexpired # {}
  /\ \E a \in DOMAIN players \cap DOMAIN lastHb :
       cnow = lastHb[a] + PLAYER_TIMEOUT_SECS

\* C9: decoding a byte sequence shorter than the header returns the error
\* result
C9_ShortInputIsError ==
  (kpc = "packet" /\ Len(kdata) < HEADER_LEN) => kres = None

\* C10: decoding bytes whose first byte is none of the seven codes returns
\* the error result, and from_byte of the code of a message type is that
\* message type
C10_TypeCodes ==
  /\ (kpc = "packet" /\ Len(kdata) > 0 /\ kdata[1] \notin {Code(t) : t \in MessageTypes})
       => kres = None
  /\ kpc = "type" =>
       /\ kdata[1] \notin {Code(t) : t \in MessageTypes} => kres = None
       /\ \A t \in MessageTypes : kdata[1] = Code(t) => kres = Some(t)

C10_Witness ==
  /\ kpc = "type"
  /\ kdata[1] = Code("PlayerLeft")
  /\ kres = Some("PlayerLeft")
  /\ Len(kdata) = MaxDatagramLen

\* C11: GamePacket::deserialize of the bytes of a well-formed packet is
\* that packet, field by field
C11_PacketRoundTrip ==
  [][DecodeEncoded =>
       /\ kres'.tag = "Some"
       /\ kres'.val.msg_type = kres.val.msg_type
       /\ kres'.val.version = kres.val.version
       /\ kres'.val.client_id = kres.val.client_id
       /\ kres'.val.seq_num = kres.val.seq_num
       /\ kres'.val.payload = kres.val.payload]_vars

C11_Witness ==
  /\ kpc = "packet_back"
  /\ kres.tag = "Some"
  /\ kres.val.version = 255
  /\ kres.val.seq_num = 2147483647
  /\ kres.val.payload = Position_serialize(TestPosition)
  /\ kres.val.client_id = BadId

\* C12: Position::deserialize of the 8 bytes of Position::serialize(x) is x
C12_PositionRoundTrip ==
  [][DecodePosition => kres' = kres]_vars

\* send_heartbeats has returned, with Ok or with Err
TickEnded == (hpc = "send" /\ htodo = {}) \/ hpc = "failed"

\* the packet of the i-th send_to call is a Heartbeat with an empty payload
\* and sequence number 0
IsProbe(i) ==
  /\ OutPacket(i).msg_type = "Heartbeat"
  /\ OutPacket(i).payload = << >>
  /\ OutPacket(i).seq_num = 0

\* C13: when a tick of the heartbeat manager has ended, each registered
\* address has been sent one packet in it, a Heartbeat with an empty payload
\* and sequence number 0
C13_ProbeEveryPlayer ==
  TickEnded =>
     \A b \in DOMAIN players :
        Cardinality(OutTo(b)) = 1 /\ \A i \in OutTo(b) : IsProbe(i)

\* the addresses a send_to call of the current hold failed for
FailedTo == {out[i].to : i \in {j \in 1..Len(out) : ~out[j].ok}}

\* C14: when a tick in which a send failed has ended, every other
\* registered address has been sent its Heartbeat in that tick
C14_ProbeDespiteFailure ==
  (TickEnded /\ FailedTo # {}) =>
     \A b \in DOMAIN players \ FailedTo : OutOfType(b, "Heartbeat") # {}

\* C15: a pass of the cleanup task in which a PlayerLeft send failed has
\* ended with each inactive player announced to every other registered
\* address and with no inactive player registered
C15_PassDespiteFailure ==
  (PassEnded /\ FailedTo # {}) =>
     /\ \A e \in DOMAIN cexpired :
          \A b \in (DOMAIN players \cup DOMAIN cexpired) \ {e} :
             \E i \in OutOfType(b, "PlayerLeft") :
                OutPacket(i).payload = as_bytes(cexpired[e].id)
     /\ \A a \in DOMAIN players : ~IsInactive(cnow, players[a])

\* C16: whatever sends failed, a handled PositionUpdate has been sent once
\* to every entry whose id is not the claimed one and the position it
\* brought is stored; a handled ConnectionInit has had its reply sent to the
\* sender and one PlayerJoin sent to every other entry, and the new entry
\* is in the registry
C16_FanOutDespiteFailure ==
  /\ PositionHandled =>
       /\ \A b \in DOMAIN players :
            as_bytes(players[b].id) # Package.client_id =>
               Cardinality(OutOfType(b, "PositionUpdate")) = 1
       /\ raddr \in DOMAIN players =>
            players[raddr].position = PositionGamePacket_new(Package).val.position
  /\ JoinHandled =>
       /\ out[1].to = raddr /\ OutPacket(1).msg_type = "ConnectionInit"
       /\ \A b \in DOMAIN players \ {raddr} :
            Cardinality(OutOfType(b, "PlayerJoin")) = 1
       /\ raddr \in DOMAIN players /\ players[raddr].id = rnew

C16_Witness ==
  /\ JoinHandled
  /\ Len(out) = 3
  /\ ~out[1].ok
  /\ ~out[2].ok

\* C17: handling a Heartbeat sets the heartbeat of the entry at the source
\* address to now and changes nothing else in the registry; with no entry
\* at the source address the registry stays as it is; no packet is sent and
\* the loop is back at recv_from
C17_HeartbeatSetsNow ==
  [][HandleHeartbeatStep =>
       /\ raddr \in DOMAIN players =>
            /\ DOMAIN players' = DOMAIN players
            /\ players'[raddr].heartbeat = now
            /\ players'[raddr].id = players[raddr].id
            /\ players'[raddr].position = players[raddr].position
            /\ players'[raddr].seq_num = players[raddr].seq_num
            /\ \A b \in DOMAIN players \ {raddr} : players'[b] = players[b]
       /\ raddr \notin DOMAIN players => players' = players
       /\ out' = out
       /\ rpc' = "recv"]_vars

\* the entry that joined first has the later heartbeat, set just now
C17_Witness ==
  /\ rpc = "recv"
  /\ \E a, b \in DOMAIN players :
       /\ players[a].id < players[b].id
       /\ players[a].heartbeat > players[b].heartbeat
       /\ players[a].heartbeat = now

\* C18: the steps that handle a PositionUpdate from an address with no
\* entry leave the registry as it is and send no packet
C18_UnregisteredDropped ==
  [][(raddr \notin DOMAIN players /\ (PosLock \/ \E a \in Addrs, ok \in Outcomes : PosSend(a, ok)))
       => (players' = players /\ out' = << >>)]_vars

\* C19: the step of handle_connection_init that inserts puts at the source
\* address a Player with an id no entry had, of ID_LEN bytes, the spawn
\* position, the sequence number of the inbound packet and heartbeat now;
\* the other entries stay as they are
C19_InsertNewPlayer ==
  [][InitLock =>
       /\ DOMAIN players' = DOMAIN players \cup {raddr}
       /\ players'[raddr].id \notin RegisteredIds(players)
       /\ Len(as_bytes(players'[raddr].id)) = ID_LEN
       /\ players'[raddr].position = Position_spawn
       /\ players'[raddr].seq_num = GamePacket_deserialize(rdata).val.seq_num
       /\ players'[raddr].heartbeat = now
       /\ \A b \in DOMAIN players \ {raddr} : players'[b] = players[b]]_vars

C19_Witness ==
  /\ rpc = "init_reply"
  /\ now = 10
  /\ players[raddr].heartbeat = 10
  /\ \E b \in DOMAIN players \ {raddr} :
       players[b].heartbeat < 10 /\ players[b].id < players[raddr].id

\* the PlayerLeft of inactive entry e has been sent to address b in this pass
LeftSentTo(e, b) ==
  \E i \in OutOfType(b, "PlayerLeft") : OutPacket(i).payload = as_bytes(cexpired[e].id)

\* C20: a step that sends a PlayerLeft for e finds e's entry in the registry
\* and leaves the registry as it is; the registry changes under the cleanup
\* task's lock only when every PlayerLeft of the pass has been sent, and
\* that one step removes the inactive entries of the pass and nothing else
C20_NotifyThenRemove ==
  [][/\ (\E t \in Addrs, ok \in Outcomes : CleanupSendStep(t, ok)) =>
          (ccur.addr \in DOMAIN players /\ players' = players)
     /\ (lock = "cleanup" /\ players' # players) =>
          /\ \A e \in DOMAIN cexpired :
               \A b \in DOMAIN players \ {e} : LeftSentTo(e, b)
          /\ DOMAIN players' = DOMAIN players \ DOMAIN cexpired
          /\ \A b \in DOMAIN players' : players'[b] = players[b]]_vars

C20_Witness ==
  /\ cpc = "done"
  /\ Cardinality(DOMAIN cexpired) = 2
  /\ Cardinality(DOMAIN players) = 1
  /\ Len(out) = 4

C22_StrictTimeout ==
  [][/\ CleanupLock =>
          /\ cnow' = now
          /\ DOMAIN cexpired' =
               {a \in DOMAIN players : now - players[a].heartbeat > PLAYER_TIMEOUT_SECS}
     /\ (\E t \in Addrs, ok \in Outcomes : CleanupSendStep(t, ok)) =>
          /\ ccur.addr \in DOMAIN cexpired
          /\ cnow - ccur.player.heartbeat > PLAYER_TIMEOUT_SECS
     /\ CleanupRetainStep =>
          /\ DOMAIN players' =
               {a \in DOMAIN players : cnow - players[a].heartbeat <= PLAYER_TIMEOUT_SECS}
          /\ DOMAIN players \ DOMAIN players' = DOMAIN cexpired]_vars

C22_Witness ==
  /\ cpc = "done"
  /\ DOMAIN cexpired # {}
  /\ Len(out) > 0
  /\ \E a \in DOMAIN players : cnow - players[a].heartbeat = PLAYER_TIMEOUT_SECS

\* the entries whose id is not the client_id the PositionUpdate in hand claims
OtherThanClaimed == {b \in DOMAIN players : as_bytes(players[b].id) # Package.client_id}

\* C23: while a PositionUpdate is forwarded, the addresses sent to so far and
\* those still to visit are together the entries whose id is not the claimed
\* client_id, whatever the source address, each sent to at most once; the
\* step that stores the position changes the entry at the source address and
\* no other
C23_RecipientsByClaimedId ==
  [][/\ rpc' = "pos_loop" =>
          /\ {out'[i].to : i \in 1..Len(out')} \cup rtodo' = OtherThanClaimed'
          /\ \A b \in Addrs :
               /\ Cardinality({i \in 1..Len(out') : out'[i].to = b}) <= 1
               /\ b \in rtodo' => \A i \in 1..Len(out') : out'[i].to # b
          /\ \A i \in 1..Len(out') :
               GamePacket_deserialize(out'[i].data).val.msg_type = "PositionUpdate"
     /\ PosLock =>
          /\ DOMAIN players' = DOMAIN players
          /\ \A b \in DOMAIN players \ {raddr} : players'[b] = players[b]]_vars

C23_Witness ==
  /\ PositionHandled
  /\ raddr \in DOMAIN players
  /\ Cardinality(DOMAIN players) = 3
  /\ players[raddr].position # Position_spawn
  /\ OutTo(raddr) # {}
  /\ \E b \in DOMAIN players \ {raddr} : OutTo(b) = {}

\* C24: every send_to call, of whichever task, goes to an address that has
\* an entry in the registry, and the packet's client_id is that entry's id
C24_ClientIdOfDestination ==
  [][Len(out') = Len(out) + 1 =>
       LET s == out'[Len(out')] IN
         /\ s.to \in DOMAIN players'
         /\ GamePacket_deserialize(s.data).val.client_id = as_bytes(players'[s.to].id)]_vars

C24_Witness ==
  /\ lock = "cleanup"
  /\ Len(out) = 3
  /\ \E i \in 1..Len(out) : out[i].to \in DOMAIN cexpired /\ out[i].to # ccur.addr
  /\ \E i \in 1..Len(out) : out[i].to \notin DOMAIN cexpired
  /\ \E b \in DOMAIN players : players[b].position # Position_spawn

\* C25: the step of handle_position_update that stores the position of a
\* PositionUpdate from a registered address, whose payload is
\* Position::serialize of a position p, stores p
C25_StoresSentPosition ==
  [][(PosLock /\ raddr \in DOMAIN players) =>
       \A p \in Positions :
          Package.payload = Position_serialize(p) => players'[raddr].position = p]_vars

Tasks == {"recv", "cleanup", "heartbeat"}

\* task t is between its lock().await and the drop of its guard
Holds(t) ==
  CASE t = "recv" -> rpc \in {"pos_loop", "init_reply", "init_loop"}
    [] t = "cleanup" -> cpc \in {"notify", "done", "failed"}
    [] t = "heartbeat" -> hpc \in {"send", "failed"}

\* the step changes the local state of task t
StepOf(t) ==
  CASE t = "recv" -> recvVars' # recvVars
    [] t = "cleanup" -> cleanupVars' # cleanupVars
    [] t = "heartbeat" -> hbmVars' # hbmVars

\* the packets task t sends under its guard
FanOutTypes(t) ==
  CASE t = "recv" -> {"ConnectionInit", "PlayerJoin", "PositionUpdate"}
    [] t = "cleanup" -> {"PlayerLeft"}
    [] t = "heartbeat" -> {"Heartbeat"}

\* C26: at most one task is under the guard and the Mutex names it; every
\* send_to is made by the task that holds the guard, which held it before
\* the packet and holds it after; while a task holds the guard no step of
\* another task changes the registry or sends, so the packets of one hold
\* are those of its holder's fan-out and of no other
C26_OneTaskUnderLock ==
  [][/\ Cardinality({t \in Tasks : Holds(t)'}) <= 1
     /\ \A t \in Tasks : Holds(t)' <=> lock' = t
     /\ Len(out') > Len(out) => (lock # "free" /\ lock' = lock)
     /\ \A t \in Tasks :
          lock = t =>
             /\ \A u \in Tasks \ {t} : StepOf(u) => (players' = players /\ out' = out)
             /\ \A i \in 1..Len(out') :
                  GamePacket_deserialize(out'[i].data).val.msg_type \in FanOutTypes(t)]_vars

C26_Witness ==
  /\ lock = "cleanup"
  /\ Len(out) = 1
  /\ ctodo # {}
  /\ rpc = "pos_lock"
  /\ hpc = "sleep"

\* C27: handle_connection_init holds the guard from its insert to the end of
\* its loop; when the entry with the new id has been inserted nothing has
\* been sent yet; from then on the first packet of the hold is the
\* ConnectionInit reply to the sender, and the PlayerJoin packets, which
\* carry the new id, all come after it
C27_InsertReplyAnnounce ==
  /\ rpc = "init_reply" =>
       /\ lock = "recv"
       /\ raddr \in DOMAIN players /\ players[raddr].id = rnew
       /\ out = << >>
  /\ rpc = "init_loop" =>
       /\ lock = "recv"
       /\ raddr \in DOMAIN players /\ players[raddr].id = rnew
       /\ Len(out) >= 1
       /\ out[1].to = raddr /\ OutPacket(1).msg_type = "ConnectionInit"
       /\ \A i \in 2..Len(out) :
            /\ OutPacket(i).msg_type = "PlayerJoin"
            /\ out[i].to # raddr
            /\ SubSeq(OutPacket(i).payload, 1, ID_LEN) = as_bytes(rnew)
  /\ \A i \in 1..Len(out) :
       OutPacket(i).msg_type = "PlayerJoin" => (i > 1 /\ rpc = "init_loop")

C27_Witness ==
  /\ rpc = "init_loop"
  /\ Len(out) = 2
  /\ ~out[1].ok
  /\ rejoined

\* the message types the match on package.msg_type has no handler for
IgnoredTypes == {"ChatMessage", "ConfirmPlayerMovement", "PlayerJoin", "PlayerLeft"}

\* C28: the turn of the receive loop that takes a datagram with a full header
\* whose first byte is the code of ChatMessage, ConfirmPlayerMovement,
\* PlayerJoin or PlayerLeft logs it in the `_` arm and is back at recv_from:
\* no lock is taken, the registry is as it was and nothing is sent
C28_IgnoredTypesNoEffect ==
  [][\A a \in Addrs, d \in Datagrams :
       (ReceiveLogged(a, d) /\ Len(d) >= HEADER_LEN
          /\ d[1] \in {Code(t) : t \in IgnoredTypes}) =>
            /\ ignored'
            /\ rpc' = "recv"
            /\ UNCHANGED << players, out, lock, nextId, rtodo, rnew >>]_vars

C28_Witness ==
  /\ ignored
  /\ rpc = "recv"
  /\ Cardinality(DOMAIN players) = 3
  /\ \E b \in DOMAIN players : players[b].position # Position_spawn

\* C29: the insert of handle_connection_init for an address that has an
\* entry leaves the registry with the same addresses; the address then holds
\* a Player with an id no entry had, no entry holds the id the address had
\* before, and no other address holds the new id
C29_RejoinOverwrites ==
  [][(InitLock /\ raddr \in DOMAIN players) =>
       /\ DOMAIN players' = DOMAIN players
       /\ Cardinality(DOMAIN players') = Cardinality(DOMAIN players)
       /\ players'[raddr].id = rnew'
       /\ players'[raddr].id \notin RegisteredIds(players)
       /\ players[raddr].id \notin RegisteredIds(players')
       /\ \A b \in DOMAIN players' \ {raddr} :
            players'[b] = players[b] /\ players'[b].id # players'[raddr].id]_vars

C29_Witness ==
  /\ rpc = "init_reply"
  /\ rejoined
  /\ Cardinality(DOMAIN players) = 2
  /\ nextId = 4
  /\ players[raddr].id = 3

\* C30: the step of handle_position_update that stores the position keeps
\* the addresses of the registry, the heartbeat, id and seq_num of every
\* entry and all of every entry but the one at the source address; its
\* sending loop leaves the registry as it is; so the entries whose heartbeat
\* is more than PLAYER_TIMEOUT_SECS old when a pass of the cleanup task
\* reads the clock are collected by it and removed by its retain, whatever
\* PositionUpdates they sent
C30_PositionKeepsHeartbeat ==
  [][/\ PosLock =>
          /\ DOMAIN players' = DOMAIN players
          /\ \A b \in DOMAIN players :
               /\ players'[b].heartbeat = players[b].heartbeat
               /\ players'[b].id = players[b].id
               /\ players'[b].seq_num = players[b].seq_num
               /\ b # raddr => players'[b] = players[b]
     /\ (\E a \in Addrs, ok \in Outcomes : PosSend(a, ok)) => players' = players
     /\ CleanupLock =>
          \A b \in DOMAIN players :
             now - players[b].heartbeat > PLAYER_TIMEOUT_SECS => b \in DOMAIN cexpired'
     /\ CleanupRetainStep =>
          \A b \in DOMAIN players :
             cnow - players[b].heartbeat > PLAYER_TIMEOUT_SECS => b \notin DOMAIN players']_vars

C30_Witness ==
  /\ cpc = "done"
  /\ \E e \in DOMAIN cexpired :
       /\ cexpired[e].position # Position_spawn
       /\ e \notin DOMAIN players
  /\ \E b \in DOMAIN players : players[b].position # Position_spawn

\* C31: when a pass of the cleanup task has ended, no entry for which the
\* pass delivered a PlayerLeft to some address is in the registry, also
\* when a send of the pass returned Err
C31_AnnouncedIsRemoved ==
  PassEnded =>
     \A e \in DOMAIN cexpired :
        (\E i \in 1..Len(out) :
            /\ out[i].ok
            /\ OutPacket(i).msg_type = "PlayerLeft"
            /\ OutPacket(i).payload = as_bytes(cexpired[e].id)) =>
           cexpired[e].id \notin RegisteredIds(players)

\* C32: no step that handles a PositionUpdate datagram with a full header,
\* from the turn of the loop that takes it to the last send of its handler,
\* ends the receive task, whatever the payload's length and the bytes of
\* client_id
C32_PositionUpdateKeepsLoop ==
  [][/\ \A a \in Addrs, d \in Datagrams :
          (Receive(a, d) /\ Len(d) >= HEADER_LEN /\ d[1] = Code("PositionUpdate")) =>
             rpc' # "dead"
     /\ (PosLock \/ \E a \in Addrs, ok \in Outcomes : PosSend(a, ok)) =>
          rpc' # "dead"]_vars

\* the receive task is at the lock().await of a handler
RecvWaits == rpc \in {"hb_lock", "pos_lock", "init_lock"}

\* C33: the Mutex names a task only while that task is in a handler, a pass
\* or a tick; a pass and a tick that a send error has ended can drop the
\* guard at once, as can a handler whose loop is over; whenever all three
\* tasks are at a lock().await the guard is free; every hold ends with the
\* guard free, and a task at a lock().await gets the guard
C33_LockReleased ==
  /\ [](\A t \in Tasks : lock = t => Holds(t))
  /\ [](cpc = "failed" => ENABLED CleanupRelease)
  /\ [](hpc = "failed" => ENABLED HbmRelease)
  /\ []((rpc \in {"pos_loop", "init_loop"} /\ rtodo = {}) => ENABLED RecvRelease)
  /\ []((RecvWaits /\ cpc = "wait" /\ hpc = "wait") => lock = "free")
  /\ (lock # "free") ~> (lock = "free")
  /\ (cpc = "wait") ~> (lock = "cleanup")
  /\ (hpc = "wait") ~> (lock = "heartbeat")
  /\ RecvWaits ~> ~RecvWaits

C33_Witness ==
  /\ hpc = "failed"
  /\ cpc = "wait"
  /\ rpc = "pos_lock"
  /\ lock = "heartbeat"

\* C34: a step that adds an address to the registry is the insert of
\* handle_connection_init and adds the source address only; a step that
\* takes an address out is the retain of the cleanup task; the steps of the
\* receive task that take a datagram of any type or handle a Heartbeat or a
\* PositionUpdate, and the steps of the heartbeat manager, leave the set of
\* addresses as it was, so an address without an entry has none after them
C34_KeySetFrame ==
  [][/\ DOMAIN players' \ DOMAIN players # {} =>
          (InitLock /\ DOMAIN players' = DOMAIN players \cup {raddr})
     /\ DOMAIN players \ DOMAIN players' # {} => CleanupRetainStep
     /\ (\/ StepOf("recv") /\ rpc \in {"recv", "hb_lock", "pos_lock", "pos_loop"}
         \/ ignored' # ignored
         \/ StepOf("heartbeat")) => DOMAIN players' = DOMAIN players]_vars

C34_Witness ==
  /\ PositionHandled
  /\ reaped /\ ~rejoined
  /\ nextId = 3
  /\ Cardinality(DOMAIN players) = 1
  /\ raddr \notin DOMAIN players

\* the clock readings, and those after which the clock still passes the
\* timeout
Times == {k * ClockStep : k \in 0..(MaxTime \div ClockStep)}
StaleTimes == {h \in Times : h + PLAYER_TIMEOUT_SECS < MaxTime}

\* address a has an entry whose heartbeat is h
HeartbeatAt(a, h) == a \in DOMAIN players /\ players[a].heartbeat = h

\* C35: with time going on, the cleanup task scheduled fairly and its sends
\* returning Ok, every pass reaches its retain, which removes the entries
\* whose heartbeat is more than PLAYER_TIMEOUT_SECS older than the pass's
\* `now` and no other; so an entry whose heartbeat stays as it is, no
\* Heartbeat and no ConnectionInit coming from its address, is removed
C35_EventuallyReaped ==
  /\ [](cpc # "failed")
  /\ [][CleanupRetainStep =>
          DOMAIN players' =
            {a \in DOMAIN players : cnow - players[a].heartbeat <= PLAYER_TIMEOUT_SECS}]_vars
  /\ \A a \in Clients :
       \A h \in StaleTimes : HeartbeatAt(a, h) ~> ~HeartbeatAt(a, h)

C35_Witness ==
  /\ cpc = "done"
  /\ cnow = MaxTime
  /\ Cardinality(DOMAIN cexpired) = 1
  /\ Len(out) = 1
  /\ \E a \in DOMAIN players : players[a].heartbeat > 0

\* C36: whenever no task holds the guard, every id a registered address was
\* told of, in the roster of its ConnectionInit reply or in a PlayerJoin,
\* and was not sent a PlayerLeft for, is the id of a registry entry
C36_ToldOfEveryLeave ==
  lock = "free" =>
     \A a \in DOMAIN players : known[a] \subseteq RegisteredIds(players)

====
